---- MODULE Spec2Model ----
(***************************************************************************)
(* A model of veriloghex (src/src/lib.rs): the token parser                *)
(* Record::from_string, the byte grouping function group_new_data and the  *)
(* iterator Reader.                                                        *)
(*                                                                         *)
(* Text is a sequence of one-character strings.  An unsigned integer of    *)
(* the program (u8, u16, u32, u64) is the sequence of its hexadecimal      *)
(* digits, most significant first, one digit (0..15) per four bits of the  *)
(* type: a u64 is 16 digits, so that 64-bit addresses and packed values    *)
(* keep their width.                                                       *)
(***************************************************************************)
EXTENDS Integers, Sequences, FiniteSets, TLC

VARIABLES
    input,           \* the text the reader was constructed over
    options,         \* Reader.options
    token_iterator,  \* Reader.token_iterator: Peekable<SplitAsciiWhitespace>
    finished,        \* Reader.finished
    current_addr,    \* Reader.current_addr
    overflow_checks, \* whether the build panics on integer overflow
    panicked,        \* a call has panicked: the run is over
    trace,           \* one entry per completed call of Reader::next
    last             \* the last operation of the caller and what it returned

vars == <<input, options, token_iterator, finished, current_addr,
          overflow_checks, panicked, trace, last>>

(***************************************************************************)
(* Unsigned integers as digit sequences                                    *)
(***************************************************************************)

\* hexadecimal digits of a u8 and of a u64 (type Addr)
U8Digits == 2
U64Digits == 16

Zeros(n) == [i \in 1..n |-> 0]

\* T::from(x): zero extension to a type of n digits
Widen(x, n) == Zeros(n - Len(x)) \o x

\* x << (4 * d) in the type of x
Shl(x, d) == SubSeq(x, d + 1, Len(x)) \o Zeros(d)

DigitOr(a, b) ==
    LET Bit(v, k) == (v \div (2 ^ k)) % 2
        Or(k) == IF Bit(a, k) = 1 \/ Bit(b, k) = 1 THEN 2 ^ k ELSE 0
    IN  Or(0) + Or(1) + Or(2) + Or(3)

\* x | y for two values of the same type
BitOr(x, y) == [i \in 1..Len(x) |-> DigitOr(x[i], y[i])]

\* x + 1 in the type of x: the wrapped sum and whether it overflowed
Carry(hi) == [value |-> hi.value \o <<0>>, overflow |-> hi.overflow]

RECURSIVE AddOne(_)
AddOne(x) ==
    IF Len(x) = 0 THEN [value |-> <<>>, overflow |-> TRUE]
    ELSE IF x[Len(x)] < 15
    THEN [value |-> [x EXCEPT ![Len(x)] = @ + 1], overflow |-> FALSE]
    ELSE Carry(AddOne(SubSeq(x, 1, Len(x) - 1)))

(***************************************************************************)
(* core::num: from_str_radix(src, 16) of an unsigned type of n digits      *)
(***************************************************************************)

NoDigit == -1

\* char::to_digit(16)
to_digit(c) ==
    CASE c = "0" -> 0  [] c = "1" -> 1  [] c = "2" -> 2  [] c = "3" -> 3
      [] c = "4" -> 4  [] c = "5" -> 5  [] c = "6" -> 6  [] c = "7" -> 7
      [] c = "8" -> 8  [] c = "9" -> 9
      [] c = "a" -> 10 [] c = "b" -> 11 [] c = "c" -> 12
      [] c = "d" -> 13 [] c = "e" -> 14 [] c = "f" -> 15
      [] c = "A" -> 10 [] c = "B" -> 11 [] c = "C" -> 12
      [] c = "D" -> 13 [] c = "E" -> 14 [] c = "F" -> 15
      [] OTHER -> NoDigit

\* the digit loop: result = result.checked_mul(16)?.checked_add(digit)?
RECURSIVE Accumulate(_, _)
AccumulateDigit(digits, result, d) ==
    IF d = NoDigit THEN [ok |-> FALSE, kind |-> "InvalidDigit"]
    ELSE IF result[1] # 0 THEN [ok |-> FALSE, kind |-> "PosOverflow"]
    ELSE Accumulate(Tail(digits), [Shl(result, 1) EXCEPT ![Len(result)] = d])

Accumulate(digits, result) ==
    IF Len(digits) = 0 THEN [ok |-> TRUE, value |-> result]
    ELSE AccumulateDigit(digits, result, to_digit(Head(digits)))

\* the sign of an unsigned type: an optional '+' is dropped, a '-' is left to
\* the digit loop, where it is no digit
StripSign(src) == IF src[1] = "+" THEN Tail(src) ELSE src

\* <uN>::from_str_radix(src, 16) for an unsigned type of n digits
from_str_radix(src, n) ==
    IF Len(src) = 0 THEN [ok |-> FALSE, kind |-> "Empty"]
    ELSE IF Len(src) = 1 /\ src[1] \in {"+", "-"}
    THEN [ok |-> FALSE, kind |-> "InvalidDigit"]
    ELSE Accumulate(StripSign(src), Zeros(n))

(***************************************************************************)
(* DataType, Record, ReaderError                                           *)
(***************************************************************************)

\* a DataType is [tag, value]: value has the digits of the variant's field
DataTags == <<"U8", "U16", "U24", "U32", "U40", "U48", "U56", "U64">>

\* bytes a variant stands for
Width(tag) == CHOOSE w \in 1..8 : DataTags[w] = tag

Data(addr, value) == [type |-> "Data", addr |-> addr, value |-> value]
Comment == [type |-> "Comment"]
EndOfFile == [type |-> "EndOfFile"]
NewAddress(addr) == [type |-> "NewAddress", addr |-> addr]

Ok(rec) == [ok |-> TRUE, rec |-> rec]
Err(e) == [ok |-> FALSE, err |-> e]

IsData(res) == res.ok /\ res.rec.type = "Data"
IsNewAddress(res) == res.ok /\ res.rec.type = "NewAddress"

starts_with(string, prefix) ==
    Len(string) >= Len(prefix) /\ SubSeq(string, 1, Len(prefix)) = prefix

\* the '@' rule of Record::from_string, after u64::from_str_radix
AddressRule(parsed) ==
    IF parsed.ok THEN Ok(NewAddress(parsed.value))
    ELSE Err("BadNumberConversion")

\* the byte rule of Record::from_string, after u8::from_str_radix
ByteRule(parsed, addr) ==
    IF parsed.ok THEN Ok(Data(addr, [tag |-> "U8", value |-> parsed.value]))
    ELSE Err("BadNumberConversion")

\* Record::from_string
\* a parse that takes only the bare "//" for a comment
from_string_BareComment(string, addr) ==
    IF Len(string) = 0 THEN Err("InvalidSyntax")
    ELSE IF string = <<"/", "/">> THEN Ok(Comment)
    ELSE IF starts_with(string, <<"@">>)
    THEN AddressRule(from_str_radix(Tail(string), U64Digits))
    ELSE ByteRule(from_str_radix(string, U8Digits), addr)

from_string(string, addr) ==
    IF Len(string) = 0 THEN Err("InvalidSyntax")
    ELSE IF starts_with(string, <<"/", "/">>) THEN Ok(Comment)
    ELSE IF starts_with(string, <<"@">>)
    THEN AddressRule(from_str_radix(Tail(string), U64Digits))
    ELSE ByteRule(from_str_radix(string, U8Digits), addr)

\* value | (T::from(next_value_u8) << shift) in a type T of n digits
Pack(value, next_value_u8, n, shift) ==
    BitOr(Widen(value, n), Shl(Widen(next_value_u8, n), shift \div 4))

\* a grouping that shifts every new byte by 8 bits only
group_new_data_SameShift(value, next_value_u8) ==
    IF value.tag = "U64" THEN value
    ELSE [tag |-> DataTags[Width(value.tag) + 1],
          value |-> Pack(value.value, next_value_u8, 16, 8)]

group_new_data(value, next_value_u8) ==
    CASE value.tag = "U8"  -> [tag |-> "U16", value |-> Pack(value.value, next_value_u8, 4, 8)]
      [] value.tag = "U16" -> [tag |-> "U24", value |-> Pack(value.value, next_value_u8, 8, 16)]
      [] value.tag = "U24" -> [tag |-> "U32", value |-> Pack(value.value, next_value_u8, 8, 24)]
      [] value.tag = "U32" -> [tag |-> "U40", value |-> Pack(value.value, next_value_u8, 16, 32)]
      [] value.tag = "U40" -> [tag |-> "U48", value |-> Pack(value.value, next_value_u8, 16, 40)]
      [] value.tag = "U48" -> [tag |-> "U56", value |-> Pack(value.value, next_value_u8, 16, 48)]
      [] value.tag = "U56" -> [tag |-> "U64", value |-> Pack(value.value, next_value_u8, 16, 56)]
      [] value.tag = "U64" -> value

(***************************************************************************)
(* The tokenizer: Peekable<SplitAsciiWhitespace>                           *)
(***************************************************************************)

None == [some |-> FALSE]
Some(x) == [some |-> TRUE, value |-> x]

\* u8::is_ascii_whitespace
\* a whitespace test that leaves the form feed out
is_ascii_whitespace_NoFormFeed(c) == c \in {" ", "\t", "\n", "\r"}

is_ascii_whitespace(c) == c \in {" ", "\t", "\n", "\f", "\r"}

\* where the first whitespace character of rest is (past its end if none)
FirstWhitespace(rest) ==
    IF \A i \in 1..Len(rest) : ~is_ascii_whitespace(rest[i]) THEN Len(rest) + 1
    ELSE CHOOSE i \in 1..Len(rest) :
           /\ is_ascii_whitespace(rest[i])
           /\ \A j \in 1..(i - 1) : ~is_ascii_whitespace(rest[j])

\* SplitAsciiWhitespace::next over the text left: the text is split at every
\* whitespace character and the empty pieces are filtered out
RECURSIVE SplitAsciiWhitespace_next(_)
\* a split that keeps the empty pieces
FilterPiece_KeepsEmpty(piece, after) == [item |-> Some(piece), rest |-> after]

FilterPiece(piece, after) ==
    IF Len(piece) = 0 THEN SplitAsciiWhitespace_next(after)
    ELSE [item |-> Some(piece), rest |-> after]

SplitAt(rest, cut) ==
    FilterPiece(SubSeq(rest, 1, cut - 1), SubSeq(rest, cut + 1, Len(rest)))

SplitAsciiWhitespace_next(rest) ==
    IF Len(rest) = 0 THEN [item |-> None, rest |-> rest]
    ELSE SplitAt(rest, FirstWhitespace(rest))

\* Peekable::next: the peeked item if one is held, else the next of iter
TakeFromIter(it, n) == [item |-> n.item, it |-> [it EXCEPT !.iter = n.rest]]

Peekable_next(it) ==
    IF it.peeked.some
    THEN [item |-> it.peeked.value, it |-> [it EXCEPT !.peeked = None]]
    ELSE TakeFromIter(it, SplitAsciiWhitespace_next(it.iter))

\* Peekable::peek: fills the peeked slot and shows it
FillPeeked(n) ==
    [item |-> n.item, it |-> [iter |-> n.rest, peeked |-> Some(n.item)]]

Peekable_peek(it) ==
    IF it.peeked.some THEN [item |-> it.peeked.value, it |-> it]
    ELSE FillPeeked(SplitAsciiWhitespace_next(it.iter))

\* Reader::next_record: the first token that is not empty
RECURSIVE next_record(_)
FindNotEmpty(n) ==
    IF n.item.some /\ Len(n.item.value) = 0 THEN next_record(n.it) ELSE n

next_record(it) == FindNotEmpty(Peekable_next(it))

\* Reader::new_with_options
new_with_options(string, opts) ==
    [token_iterator |-> [iter |-> string, peeked |-> None],
     finished |-> FALSE,
     options |-> opts,
     current_addr |-> Zeros(U64Digits)]

(***************************************************************************)
(* Reader::next                                                            *)
(***************************************************************************)

\* what a call comes to: the reader after it, what it returns, and whether it
\* panicked instead of returning
Outcome(self, ret, panic) == [self |-> self, ret |-> ret, panic |-> panic]

\* a parse error that does not finish the reader
FinishedAfterParse_KeepsOn(parse_result, fin) ==
    IF parse_result.ok /\ parse_result.rec.type = "EndOfFile" THEN TRUE ELSE fin

\* self.finished after the parse of a token
FinishedAfterParse(parse_result, fin) ==
    IF ~parse_result.ok THEN TRUE
    ELSE IF parse_result.rec.type = "EndOfFile" THEN TRUE
    ELSE fin

\* self.current_addr += 1: a build with overflow checks panics where the sum
\* does not fit, a build without them wraps
Overflowed(sum, checks) == [value |-> sum.value, panic |-> sum.overflow /\ checks]

Increment(addr, checks) == Overflowed(AddOne(addr), checks)

\* a lookahead that takes the token it does not merge out of the tokenizer
LeavePeeked_Consumes(it) == Peekable_next(it).it

\* the peeked token the grouping loop does not merge stays in the peeked slot
LeavePeeked(it) == it

\* the grouping loop of Reader::next
RECURSIVE GroupingLoop(_, _, _)
\* the peeked token is a byte: merge it, count it, consume it, and go on
Merge(self, merged, inc, checks) ==
    IF inc.panic THEN Outcome(self, Some(merged), TRUE)
    ELSE GroupingLoop(
           [self EXCEPT !.current_addr = inc.value,
                        !.token_iterator = Peekable_next(@).it],
           merged, checks)

\* the trial parse of the peeked token
Trial(self, parse_result, next_result, checks) ==
    IF IsData(next_result) /\ next_result.rec.value.tag = "U8"
    THEN Merge(self,
               Ok(Data(parse_result.rec.addr,
                       group_new_data(parse_result.rec.value,
                                      next_result.rec.value.value))),
               Increment(self.current_addr, checks), checks)
    ELSE Outcome([self EXCEPT !.token_iterator = LeavePeeked(@)],
                 Some(parse_result), FALSE)

Peeked(self, parse_result, pk, checks) ==
    IF ~pk.item.some
    THEN Outcome([self EXCEPT !.token_iterator = pk.it], Some(parse_result), FALSE)
    ELSE Trial([self EXCEPT !.token_iterator = pk.it], parse_result,
               from_string(pk.item.value, self.current_addr), checks)

\* a grouping loop that gives up one byte short of the widest variant
GroupingLoop_StopsAtU56(self, parse_result, checks) ==
    IF ~IsData(parse_result) \/ parse_result.rec.value.tag \in {"U56", "U64"}
    THEN Outcome(self, Some(parse_result), FALSE)
    ELSE Peeked(self, parse_result, Peekable_peek(self.token_iterator), checks)

GroupingLoop(self, parse_result, checks) ==
    IF ~IsData(parse_result) \/ parse_result.rec.value.tag = "U64"
    THEN Outcome(self, Some(parse_result), FALSE)
    ELSE Peeked(self, parse_result, Peekable_peek(self.token_iterator), checks)

\* the end of Reader::next: group if asked to and not finished
Group(self, parse_result, checks) ==
    IF self.options.group /\ ~self.finished
    THEN GroupingLoop(self, parse_result, checks)
    ELSE Outcome(self, Some(parse_result), FALSE)

\* an address directive that does not move the cursor
Count_KeepsAddress(self, parse_result, inc, checks) ==
    IF IsData(parse_result)
    THEN (IF inc.panic THEN Outcome(self, None, TRUE)
          ELSE Group([self EXCEPT !.current_addr = inc.value], parse_result,
                     checks))
    ELSE Group(self, parse_result, checks)

\* the address cursor after the parse of a token
Count(self, parse_result, inc, checks) ==
    IF IsNewAddress(parse_result)
    THEN Group([self EXCEPT !.current_addr = parse_result.rec.addr],
               parse_result, checks)
    ELSE IF IsData(parse_result)
    THEN (IF inc.panic THEN Outcome(self, None, TRUE)
          ELSE Group([self EXCEPT !.current_addr = inc.value], parse_result,
                     checks))
    ELSE Group(self, parse_result, checks)

Parsed(self, parse_result, checks) ==
    Count([self EXCEPT !.finished = FinishedAfterParse(parse_result, @)],
          parse_result, Increment(self.current_addr, checks), checks)

\* an end of the tokens that does not finish the reader
Pulled_NeverFinishes(self, n, checks) ==
    IF ~n.item.some
    THEN Outcome([self EXCEPT !.token_iterator = n.it], None, FALSE)
    ELSE Parsed([self EXCEPT !.token_iterator = n.it],
                from_string(n.item.value, self.current_addr), checks)

Pulled(self, n, checks) ==
    IF ~n.item.some
    THEN Outcome([self EXCEPT !.token_iterator = n.it, !.finished = TRUE],
                 None, FALSE)
    ELSE Parsed([self EXCEPT !.token_iterator = n.it],
                from_string(n.item.value, self.current_addr), checks)

\* a Reader::next without its check of self.finished
Reader_next_Unchecked(self, checks) ==
    Pulled(self, next_record(self.token_iterator), checks)

\* Reader::next
Reader_next(self, checks) ==
    IF self.finished THEN Outcome(self, None, FALSE)
    ELSE Pulled(self, next_record(self.token_iterator), checks)

\* Iterator::nth, the default method: advance_by(n), which calls next n times
\* and stops at the first None, and then next.  calls: the calls of next that
\* returned, in order
RECURSIVE Iterator_nth(_, _, _)
Advance(r, n, checks) ==
    IF r.panic
    THEN [self |-> r.self, ret |-> None, panic |-> TRUE, calls |-> <<>>]
    ELSE IF n = 0 \/ ~r.ret.some
    THEN [self |-> r.self, ret |-> IF n = 0 THEN r.ret ELSE None,
          panic |-> FALSE, calls |-> <<r>>]
    ELSE [Iterator_nth(r.self, n - 1, checks) EXCEPT !.calls = <<r>> \o @]

\* an nth that skips nothing
Iterator_nth_SkipsNone(self, n, checks) ==
    Advance(Reader_next(self, checks), 0, checks)

Iterator_nth(self, n, checks) == Advance(Reader_next(self, checks), n, checks)

(***************************************************************************)
(* Input texts                                                             *)
(***************************************************************************)

\* tokens of the short inputs
MaxToks == 2
\* bytes in the byte runs of the long inputs
MaxRun == 9
\* calls the caller still makes after the terminal signal
MaxTerminal == 2
\* items a call of nth skips
MaxSkip == 1
\* characters of the texts that are whitespace only
MaxBlank == 2

Pool ==
    { <<"0", "9">>, <<"A", "0">>, <<"Z", "Z">>, <<"/", "/", "x">>,
      <<"/", "/", "@", "1">>,
      <<"@", "8", "1", "0", "0", "0", "0", "0", "0">>,
      <<"@", "F", "F", "F", "F", "F", "F", "F", "F", "F", "F", "F", "F", "F", "F", "F", "F">>,
      <<"@">> }

\* the bytes of the crate's example text
ExampleBytes ==
    << <<"0", "9">>, <<"A", "0">>, <<"F", "3">>, <<"2", "2">>, <<"2", "0">>,
       <<"3", "4">>, <<"6", "3">>, <<"8", "4">>, <<"0", "2">>, <<"0", "0">>,
       <<"6", "F">>, <<"0", "0">>, <<"E", "0">>, <<"5", "7">>, <<"8", "1">>,
       <<"4", "0">>, <<"0", "1">>, <<"4", "1">> >>

Run(n) == [i \in 1..n |-> ExampleBytes[((i - 1) % Len(ExampleBytes)) + 1]]

RunPrefixes ==
    { <<>>,
      << <<"@", "8", "1", "0", "0", "0", "0", "0", "0">> >>,
      << <<"@", "F", "F", "F", "F", "F", "F", "F", "F", "F", "F", "F", "F",
           "F", "F", "F", "E">> >> }

RunSuffixes ==
    { <<>>, << <<"/", "/">> >>, << <<"Z", "Z">> >>, << <<"@", "1", "0">> >> }

\* how the tokens of a text are laid out: the whitespace before the first,
\* after the i-th (in turn) and after the last
ExampleLayout ==
    [lead |-> <<"\n">>, seps |-> << <<"\n">>, <<" ">> >>, trail |-> <<"\n">>]

Layouts ==
    { ExampleLayout,
      [lead |-> <<>>, seps |-> << <<"\t", " ">>, <<" ">>, <<"\r", "\n">> >>,
       trail |-> <<>>] }

RECURSIVE Text(_, _, _)
Text(toks, layout, i) ==
    IF i > Len(toks) THEN layout.trail
    ELSE (IF i = 1 THEN layout.lead
          ELSE layout.seps[((i - 2) % Len(layout.seps)) + 1])
         \o toks[i] \o Text(toks, layout, i + 1)

\* every list of at most MaxToks tokens of the pool
ShortLists == UNION {[1..n -> Pool] : n \in 0..MaxToks}

\* a run of bytes, after an address directive or none, before another token or none
RunLists ==
    {p \o Run(n) \o s : p \in RunPrefixes, n \in 1..MaxRun, s \in RunSuffixes}

\* the text of the crate's examples: an address directive and 32 bytes
ExampleList ==
    << <<"@", "8", "1", "0", "0", "0", "0", "0", "0">> >> \o Run(16)
    \o [i \in 1..16 |-> IF i % 2 = 0 THEN ExampleBytes[18]
                        ELSE IF i % 4 = 1 THEN ExampleBytes[17]
                        ELSE ExampleBytes[15]]

\* the texts of at most MaxBlank ASCII whitespace characters
AsciiWhitespace == {" ", "\t", "\n", "\f", "\r"}
BlankTexts == UNION {[1..n -> AsciiWhitespace] : n \in 0..MaxBlank}

Inputs ==
    {Text(toks, layout, 1) : toks \in ShortLists, layout \in Layouts}
    \cup BlankTexts
    \cup {Text(toks, ExampleLayout, 1) : toks \in RunLists \cup {ExampleList}}

(***************************************************************************)
(* The reader and its caller                                               *)
(***************************************************************************)

Self ==
    [token_iterator |-> token_iterator, finished |-> finished,
     options |-> options, current_addr |-> current_addr]

\* the tokens of a text, and those a tokenizer has not handed out yet
RECURSIVE TokensOf(_)
MoreTokens(n) ==
    IF n.item.some THEN <<n.item.value>> \o TokensOf(n.rest) ELSE <<>>

TokensOf(text) == MoreTokens(SplitAsciiWhitespace_next(text))

Remaining(it) ==
    (IF it.peeked.some /\ it.peeked.value.some
     THEN <<it.peeked.value.value>> ELSE <<>>) \o TokensOf(it.iter)

\* the record of one call of next that returned: what it returned, the tokens
\* handed out so far, and the reader's fields after it
Entry(r) ==
    [ret |-> r.ret,
     consumed |-> Len(TokensOf(input)) - Len(Remaining(r.self.token_iterator)),
     current_addr |-> r.self.current_addr,
     finished |-> r.self.finished]

Terminals == Cardinality({i \in 1..Len(trace) : ~trace[i].ret.some})

CanCall == ~panicked /\ Terminals < MaxTerminal

Init ==
    /\ input \in Inputs
    /\ options \in {[group |-> FALSE], [group |-> TRUE]}
    /\ overflow_checks \in BOOLEAN
    /\ token_iterator = new_with_options(input, options).token_iterator
    /\ finished = new_with_options(input, options).finished
    /\ current_addr = new_with_options(input, options).current_addr
    /\ panicked = FALSE
    /\ trace = <<>>
    /\ last = [op |-> "new"]

Returned(out, op, n) ==
    /\ token_iterator' = out.self.token_iterator
    /\ finished' = out.self.finished
    /\ current_addr' = out.self.current_addr
    /\ panicked' = out.panic
    /\ trace' = trace \o [i \in 1..Len(out.calls) |-> Entry(out.calls[i])]
    /\ last' = [op |-> op, n |-> n, pre |-> Self, ret |-> out.ret]
    /\ UNCHANGED <<input, options, overflow_checks>>

\* the caller calls reader.next()
OneCall(r) ==
    [self |-> r.self, ret |-> r.ret, panic |-> r.panic,
     calls |-> IF r.panic THEN <<>> ELSE <<r>>]

CallNext ==
    /\ CanCall
    /\ Returned(OneCall(Reader_next(Self, overflow_checks)), "next", 0)

\* the caller calls reader.nth(n)
CallNth ==
    /\ CanCall
    /\ \E n \in 0..MaxSkip :
         Returned(Iterator_nth(Self, n, overflow_checks), "nth", n)

Next == CallNext \/ CallNth

Spec == Init /\ [][Next]_vars

(***************************************************************************)
(* What the properties speak of                                            *)
(***************************************************************************)

Toks == TokensOf(input)

\* tokens the tokenizer has handed out
Consumed == Len(Toks) - Len(Remaining(token_iterator))

\* how a token parses; whether it does and what record it gives do not depend
\* on the address
ParseOf(tok) == from_string(tok, Zeros(U64Digits))
IsByteTok(tok) == IsData(ParseOf(tok))
IsBadTok(tok) == ~ParseOf(tok).ok

IsNone(e) == ~e.ret.some
IsErr(e) == e.ret.some /\ ~e.ret.value.ok
IsDataItem(e) == e.ret.some /\ IsData(e.ret.value)
IsNewAddressItem(e) == e.ret.some /\ IsNewAddress(e.ret.value)

\* tokens handed out before call c
ConsumedBefore(c) == IF c = 1 THEN 0 ELSE trace[c - 1].consumed

\* the address 0x81000000 of the crate's examples, plus n < 16
Addr81(n) == <<0, 0, 0, 0, 0, 0, 0, 0, 8, 1, 0, 0, 0, 0, 0, n>>

(***************************************************************************)
(* C1: once a call of next has returned None or an Err, every later call   *)
(* returns None, takes no token and leaves current_addr and finished as    *)
(* they are.                                                               *)
(***************************************************************************)
Terminated == \E i \in 1..Len(trace) : IsNone(trace[i]) \/ IsErr(trace[i])

C1_TerminationIsSticky ==
    [][Terminated =>
         /\ token_iterator' = token_iterator
         /\ current_addr' = current_addr
         /\ finished' = finished
         /\ ~panicked'
         /\ Len(trace') > Len(trace)
         /\ \A i \in (Len(trace) + 1)..Len(trace') : IsNone(trace'[i])
         /\ ~last'.ret.some]_vars

\* an Err was returned with tokens left, and next was called again
C1_Witness ==
    \E i \in 1..Len(trace) :
        IsErr(trace[i]) /\ Len(trace) > i /\ Len(Remaining(token_iterator)) > 0

(***************************************************************************)
(* C2: a parse error is delivered exactly once: at most one Err is         *)
(* returned, only None follows it, the call that returns it is the call    *)
(* that took the offending token, finished is true after that call, and no *)
(* token after the offending one is ever taken.                            *)
(***************************************************************************)
ErrCalls == {i \in 1..Len(trace) : IsErr(trace[i])}

\* the first token that does not parse
FirstBad ==
    CHOOSE j \in 1..Len(Toks) :
        IsBadTok(Toks[j]) /\ \A k \in 1..(j - 1) : ~IsBadTok(Toks[k])

C2_ErrorDeliveredOnce ==
    \A i \in ErrCalls :
        /\ ErrCalls = {i}
        /\ \A j \in (i + 1)..Len(trace) : IsNone(trace[j])
        /\ \E j \in 1..Len(Toks) : IsBadTok(Toks[j])
        /\ ConsumedBefore(i) = FirstBad - 1
        /\ trace[i].consumed = FirstBad
        /\ trace[i].ret.value = Err("BadNumberConversion")
        /\ trace[i].finished
        /\ finished
        /\ Consumed = FirstBad

\* grouping is on, the lookahead after a byte met the malformed token, the
\* next call returned the Err and a call after that returned None
C2_Witness ==
    /\ options.group
    /\ \E i \in ErrCalls :
         i > 1 /\ IsDataItem(trace[i - 1]) /\ Len(trace) > i

(***************************************************************************)
(* C5: the lookahead of the grouping loop takes nothing it does not merge. *)
(* With grouping on, when the token after a byte is a comment, an address  *)
(* directive or malformed, the call that took the byte returns Ok(Data)    *)
(* and leaves that token in the tokenizer, finished false and current_addr *)
(* at the address after the bytes it took; the next call takes exactly     *)
(* that token and returns what it parses to at top level.                  *)
(***************************************************************************)
\* the address n bytes after addr, wrapping
RECURSIVE AddrAfter(_, _)
AddrAfter(addr, n) ==
    IF n = 0 THEN addr ELSE AddrAfter(AddOne(addr).value, n - 1)

\* token j is a byte and token j + 1 is there and is no byte
GroupBoundaries ==
    {j \in 1..(Len(Toks) - 1) : IsByteTok(Toks[j]) /\ ~IsByteTok(Toks[j + 1])}

\* the call that took token j
TookToken(c, j) == ConsumedBefore(c) < j /\ j <= trace[c].consumed

LookaheadLeft(c, j) ==
    /\ trace[c].consumed = j
    /\ IsDataItem(trace[c])
    /\ ~trace[c].finished
    /\ Width(trace[c].ret.value.rec.value.tag) = j - ConsumedBefore(c)
    /\ trace[c].current_addr =
         AddrAfter(trace[c].ret.value.rec.addr, j - ConsumedBefore(c))
    /\ c < Len(trace) =>
         /\ trace[c + 1].consumed = j + 1
         /\ trace[c + 1].ret =
              Some(from_string(Toks[j + 1], trace[c].current_addr))
         /\ ~IsDataItem(trace[c + 1])

C5_LookaheadIsNonDestructive ==
    options.group =>
        \A j \in GroupBoundaries : \A c \in 1..Len(trace) :
            TookToken(c, j) => LookaheadLeft(c, j)

\* a group of two or more bytes ended at a malformed token, which the next
\* call returned as an Err
C5_Witness ==
    /\ options.group
    /\ \E j \in GroupBoundaries : \E c \in 1..(Len(trace) - 1) :
         /\ TookToken(c, j)
         /\ j - ConsumedBefore(c) > 1
         /\ IsErr(trace[c + 1])

(***************************************************************************)
(* C7: reader.nth(k) returns what the last of k + 1 consecutive calls of   *)
(* next returns and leaves the reader as they leave it.                    *)
(***************************************************************************)
\* k more calls of next after the call that came to r
RECURSIVE Repeat(_, _, _)
Repeat(r, k, checks) ==
    IF k = 0 \/ r.panic THEN r
    ELSE Repeat(Reader_next(r.self, checks), k - 1, checks)

SameAsNow(r) ==
    /\ r.panic = panicked
    /\ r.self = Self
    /\ ~panicked => r.ret = last.ret

C7_NthIsRepeatedNext ==
    last.op = "nth" =>
        SameAsNow(Repeat(Reader_next(last.pre, overflow_checks), last.n,
                         overflow_checks))

\* the second nth(1) of the crate's test: Data{0x81000002, U8(0xF3)}
C7_Witness ==
    /\ last.op = "nth" /\ last.n = 1
    /\ ~options.group
    /\ Len(trace) = 4
    /\ last.ret = Some(Ok(Data(Addr81(2), [tag |-> "U8", value |-> <<15, 3>>])))

(***************************************************************************)
(* C10 as claimed: the item that follows NewAddress(A), whenever there is  *)
(* one, is a record that carries the address A, whatever token follows the *)
(* directive.                                                              *)
(***************************************************************************)
AfterNewAddress ==
    {i \in 1..(Len(trace) - 1) : IsNewAddressItem(trace[i]) /\ ~IsNone(trace[i + 1])}

CarriesAddress(e, addr) ==
    /\ e.ret.value.ok
    /\ e.ret.value.rec.type \in {"Data", "NewAddress"}
    /\ e.ret.value.rec.addr = addr

C10_Claimed ==
    \A i \in AfterNewAddress :
        CarriesAddress(trace[i + 1], trace[i].ret.value.rec.addr)

(***************************************************************************)
(* C10 amended: the item that follows NewAddress(A), when it is a Data     *)
(* record, carries the address A; and it is a Data record whenever the     *)
(* token after the directive is a byte.                                    *)
(***************************************************************************)
C10_DataAfterNewAddress ==
    \A i \in AfterNewAddress :
        /\ IsDataItem(trace[i + 1]) =>
             trace[i + 1].ret.value.rec.addr = trace[i].ret.value.rec.addr
        /\ IsByteTok(Toks[trace[i].consumed + 1]) => IsDataItem(trace[i + 1])

\* a group of several bytes follows NewAddress(0x81000000)
C10_Witness ==
    \E i \in AfterNewAddress :
        /\ trace[i].ret.value.rec.addr = Addr81(0)
        /\ IsDataItem(trace[i + 1])
        /\ Width(trace[i + 1].ret.value.rec.value.tag) > 1

(***************************************************************************)
(* Runs of bytes after an address directive                                *)
(***************************************************************************)

\* the address directives the reader comes to: no token before is malformed
Directives ==
    {i \in 1..Len(Toks) :
        IsNewAddress(ParseOf(Toks[i])) /\ \A k \in 1..(i - 1) : ~IsBadTok(Toks[k])}

DirectiveAddr(i) == ParseOf(Toks[i]).rec.addr

\* the bytes that directly follow token i
RECURSIVE RunAfter(_)
RunAfter(i) ==
    IF i < Len(Toks) /\ IsByteTok(Toks[i + 1]) THEN 1 + RunAfter(i + 1) ELSE 0

\* the byte a token stands for, as DataType::U8
ByteOf(tok) == ParseOf(tok).rec.value

\* addr + n as a number: a sum past the last 64-bit address is no address
RECURSIVE Plus(_, _)
PlusStep(sum, n) == IF sum.overflow THEN sum ELSE Plus(sum.value, n - 1)

Plus(addr, n) ==
    IF n = 0 THEN [value |-> addr, overflow |-> FALSE]
    ELSE PlusStep(AddOne(addr), n)

IsSum(x, sum) == ~sum.overflow /\ x = sum.value

\* the run is over: the reader has finished or a call has panicked
RunOver == finished \/ panicked

(***************************************************************************)
(* C3: with grouping off, the N bytes that directly follow a directive @A  *)
(* are yielded, after NewAddress(A), as N Data records of width 1, the     *)
(* n-th (from 0) with addr A + n and the value of the n-th token, and then *)
(* None when the input ends there.                                         *)
(***************************************************************************)
ByteRecordAt(c, i) ==
    /\ c <= Len(trace)
    /\ IsDataItem(trace[c])
    /\ trace[c].ret.value.rec.value = ByteOf(Toks[c])
    /\ IsSum(trace[c].ret.value.rec.addr, Plus(DirectiveAddr(i), c - i - 1))

C3_Claimed ==
    (~options.group /\ RunOver) =>
        \A i \in Directives :
            /\ i <= Len(trace)
            /\ trace[i].ret = Some(Ok(NewAddress(DirectiveAddr(i))))
            /\ \A c \in (i + 1)..(i + RunAfter(i)) : ByteRecordAt(c, i)
            /\ i + RunAfter(i) = Len(Toks) =>
                 Len(trace) > Len(Toks) /\ IsNone(trace[Len(Toks) + 1])

(***************************************************************************)
(* C4: with grouping on, the N bytes that directly follow a directive @A   *)
(* are yielded as consecutive Data records of width at most 8 whose widths *)
(* sum to N; each has the address A plus the widths of the groups before   *)
(* it and the value byte[0] | byte[1] << 8 | ... of its own tokens.        *)
(***************************************************************************)
\* byte b (from 0, least significant first) of a value of any width
ByteAt(value, b) ==
    IF 2 * b + 2 > Len(value) THEN <<0, 0>>
    ELSE <<value[Len(value) - 2 * b - 1], value[Len(value) - 2 * b]>>

\* call c yields the group of the tokens after `from`, within the run that
\* follows directive i and ends at token `end`
GroupRecordAt(c, from, i, end) ==
    /\ c <= Len(trace)
    /\ IsDataItem(trace[c])
    /\ trace[c].consumed > from
    /\ trace[c].consumed <= end
    /\ Width(trace[c].ret.value.rec.value.tag) = trace[c].consumed - from
    /\ IsSum(trace[c].ret.value.rec.addr, Plus(DirectiveAddr(i), from - i))
    /\ \A b \in 0..7 :
         ByteAt(trace[c].ret.value.rec.value.value, b) =
           IF b < trace[c].consumed - from THEN ByteOf(Toks[from + 1 + b]).value
           ELSE <<0, 0>>

C4_Claimed ==
    (options.group /\ RunOver) =>
        \A i \in Directives :
            \E d \in 1..Len(trace) :
                /\ trace[d].consumed = i
                /\ trace[d].ret = Some(Ok(NewAddress(DirectiveAddr(i))))
                /\ \A c \in (d + 1)..(d + RunAfter(i)) :
                     (c - 1 <= Len(trace) /\ trace[c - 1].consumed < i + RunAfter(i))
                         => GroupRecordAt(c, trace[c - 1].consumed, i, i + RunAfter(i))

(***************************************************************************)
(* C6: current_addr is the value of the last address directive taken (0 if *)
(* none) plus the number of byte tokens taken since; comments, malformed   *)
(* tokens and the end of input leave it as it is.                          *)
(***************************************************************************)
\* the last address directive among the first n tokens (0 if none)
LastDirective(n) ==
    IF \A j \in 1..n : ~IsNewAddress(ParseOf(Toks[j])) THEN 0
    ELSE CHOOSE j \in 1..n :
           /\ IsNewAddress(ParseOf(Toks[j]))
           /\ \A k \in (j + 1)..n : ~IsNewAddress(ParseOf(Toks[k]))

BaseAddr(d) == IF d = 0 THEN Zeros(U64Digits) ELSE DirectiveAddr(d)

BytesBetween(d, n) == Cardinality({j \in (d + 1)..n : IsByteTok(Toks[j])})

CursorIs(d, n) == IsSum(current_addr, Plus(BaseAddr(d), BytesBetween(d, n)))

C6_Claimed == CursorIs(LastDirective(Consumed), Consumed)

(***************************************************************************)
(* The three statements above hold of every run in which no address sum    *)
(* passes 0xFFFFFFFFFFFFFFFF.                                              *)
(***************************************************************************)
\* the cursor comes to the last address and a byte is still to be counted
Overflows ==
    \E n \in 1..Len(Toks) :
        /\ IsByteTok(Toks[n])
        /\ Plus(BaseAddr(LastDirective(n)), BytesBetween(LastDirective(n), n)).overflow

C3_BelowOverflow == ~Overflows => C3_Claimed
C4_BelowOverflow == ~Overflows => C4_Claimed
C6_BelowOverflow == ~Overflows => C6_Claimed

(***************************************************************************)
(* Record::from_string called on its own                                   *)
(***************************************************************************)

\* characters of the short tokens
MaxTokLen == 3

Alphabet == {"0", "1", "9", "a", "F", "g", "+", "-", "@", "/", "x"}

\* 16 digits F, 17 digits, 17 digits of which the first is 0, a signed one,
\* and a byte with zeros before it
LongTokens ==
    { <<"@", "F", "F", "F", "F", "F", "F", "F", "F", "F", "F", "F", "F", "F", "F", "F", "F">>, <<"@", "1", "0", "0", "0", "0", "0", "0", "0", "0", "0", "0", "0", "0", "0", "0", "0", "0">>, <<"@", "0", "F", "F", "F", "F", "F", "F", "F", "F", "F", "F", "F", "F", "F", "F", "F", "F">>,
      <<"@", "+", "F", "F", "F", "F", "F", "F", "F", "F", "F", "F", "F", "F", "F", "F", "F", "F">>, <<"0", "0", "0", "0", "0", "a", "F">>,
      <<"1", "0", "0", "0", "0">> }

ParseTokens == UNION {[1..n -> Alphabet] : n \in 0..MaxTokLen} \cup LongTokens

ParseInit ==
    /\ input \in ParseTokens
    /\ current_addr \in {Zeros(U64Digits), Addr81(0)}
    /\ options = [group |-> FALSE]
    /\ token_iterator = new_with_options(<<>>, options).token_iterator
    /\ finished = FALSE
    /\ overflow_checks = FALSE
    /\ panicked = FALSE
    /\ trace = <<>>
    /\ last = [op |-> "new"]

\* the caller calls Record::from_string(input, current_addr)
CallFromString ==
    /\ last.op = "new"
    /\ last' = [op |-> "from_string", ret |-> from_string(input, current_addr)]
    /\ UNCHANGED <<input, options, token_iterator, finished, current_addr,
                   overflow_checks, panicked, trace>>

ParseNext == CallFromString

ParseSpec == ParseInit /\ [][ParseNext]_vars

HexDigits ==
    {"0", "1", "2", "3", "4", "5", "6", "7", "8", "9",
     "a", "b", "c", "d", "e", "f", "A", "B", "C", "D", "E", "F"}

AllHex(str) == \A i \in 1..Len(str) : str[i] \in HexDigits

\* str without the zeros it starts with
RECURSIVE Significant(_)
Significant(str) ==
    IF Len(str) > 0 /\ str[1] = "0" THEN Significant(Tail(str)) ELSE str

\* the number a string of hexadecimal digits stands for, in a type of n digits
NumberOf(str, n) == Widen([i \in 1..Len(str) |-> to_digit(str[i])], n)

IsByteCall ==
    /\ last.op = "from_string"
    /\ Len(input) > 0
    /\ ~starts_with(input, <<"/", "/">>)
    /\ ~starts_with(input, <<"@">>)

IsAddressCall == last.op = "from_string" /\ starts_with(input, <<"@">>)

(***************************************************************************)
(* C8: a non-empty token that begins with neither "//" nor '@' parses to   *)
(* Ok(Data{current_addr, U8(v)}) exactly when it is one or two hexadecimal *)
(* digits, v their value; any other such token gives                       *)
(* Err(BadNumberConversion).                                               *)
(***************************************************************************)
C8_Claimed ==
    IsByteCall =>
        IF Len(input) \in {1, 2} /\ AllHex(input)
        THEN last.ret = Ok(Data(current_addr,
                                [tag |-> "U8", value |-> NumberOf(input, U8Digits)]))
        ELSE last.ret = Err("BadNumberConversion")

(***************************************************************************)
(* C9: a token '@' r parses to Ok(NewAddress(v)) exactly when r is a       *)
(* non-empty string of hexadecimal digits, without sign or prefix, whose   *)
(* value v fits in 64 bits; any other r gives Err(BadNumberConversion).    *)
(***************************************************************************)
C9_Claimed ==
    IsAddressCall =>
        IF /\ Len(input) > 1
           /\ AllHex(Tail(input))
           /\ Len(Significant(Tail(input))) <= U64Digits
        THEN last.ret =
               Ok(NewAddress(NumberOf(Significant(Tail(input)), U64Digits)))
        ELSE last.ret = Err("BadNumberConversion")

(***************************************************************************)
(* What the code accepts: an optional '+', then one or more hexadecimal    *)
(* digits whose value fits the type, however many zeros come first.        *)
(***************************************************************************)
Unsigned(str) == IF Len(str) > 1 /\ str[1] = "+" THEN Tail(str) ELSE str

Accepts(str, n) ==
    /\ Len(Unsigned(str)) > 0
    /\ AllHex(Unsigned(str))
    /\ Len(Significant(Unsigned(str))) <= n

C8_Accepted ==
    IsByteCall =>
        IF Accepts(input, U8Digits)
        THEN last.ret =
               Ok(Data(current_addr,
                       [tag |-> "U8",
                        value |-> NumberOf(Significant(Unsigned(input)), U8Digits)]))
        ELSE last.ret = Err("BadNumberConversion")

C9_Accepted ==
    IsAddressCall =>
        IF Accepts(Tail(input), U64Digits)
        THEN last.ret =
               Ok(NewAddress(NumberOf(Significant(Unsigned(Tail(input))), U64Digits)))
        ELSE last.ret = Err("BadNumberConversion")

(***************************************************************************)
(* C11: every Data record yielded has a width w in 1..8 and a value below  *)
(* 2^(8w); it is built from the w consecutive byte tokens its call took,   *)
(* the earliest the least significant, and its addr is the address of the  *)
(* first of them; w is 1 with grouping off, and with grouping on it is one *)
(* more for every token merged.                                            *)
(***************************************************************************)
\* the address cursor before call c
AddrBefore(c) == IF c = 1 THEN Zeros(U64Digits) ELSE trace[c - 1].current_addr

\* the tokens call c took
TakenBy(c) == trace[c].consumed - ConsumedBefore(c)

\* byte b of the record is the byte of the b-th token taken, or zero past w
RecordByte(c, b) ==
    ByteAt(trace[c].ret.value.rec.value.value, b) =
        IF b < TakenBy(c) THEN ByteOf(Toks[ConsumedBefore(c) + 1 + b]).value
        ELSE <<0, 0>>

WellFormedData(c) ==
    /\ trace[c].ret.value.rec.value.tag \in {DataTags[w] : w \in 1..8}
    /\ Width(trace[c].ret.value.rec.value.tag) = TakenBy(c)
    /\ Len(trace[c].ret.value.rec.value.value) <= U64Digits
    /\ \A b \in 0..7 : RecordByte(c, b)
    /\ \A k \in 1..TakenBy(c) : IsByteTok(Toks[ConsumedBefore(c) + k])
    /\ trace[c].ret.value.rec.addr = AddrBefore(c)
    /\ ~options.group => TakenBy(c) = 1

C11_DataRecordsWellFormed ==
    \A c \in 1..Len(trace) : IsDataItem(trace[c]) => WellFormedData(c)

\* a full group of 8 bytes was yielded and then a group of more than one
C11_Witness ==
    \E c \in 2..Len(trace) :
        /\ IsDataItem(trace[c - 1]) /\ TakenBy(c - 1) = 8
        /\ IsDataItem(trace[c]) /\ TakenBy(c) > 1

(***************************************************************************)
(* C12: no run yields Ok(EndOfFile) or Err(InvalidSyntax): the tokenizer   *)
(* hands out no empty token, every Err item is BadNumberConversion and     *)
(* every Ok item is a Data, a Comment or a NewAddress.                     *)
(***************************************************************************)
\* the token held by the lookahead, if one is held, is not empty
PeekedNotEmpty ==
    (token_iterator.peeked.some /\ token_iterator.peeked.value.some)
        => Len(token_iterator.peeked.value.value) > 0

ItemKindPossible(res) ==
    IF res.ok THEN res.rec.type \in {"Data", "Comment", "NewAddress"}
    ELSE res.err = "BadNumberConversion"

C12_NoEndOfFileNoInvalidSyntax ==
    /\ \A i \in 1..Len(Toks) : Len(Toks[i]) > 0
    /\ PeekedNotEmpty
    /\ \A c \in 1..Len(trace) :
         trace[c].ret.some => ItemKindPossible(trace[c].ret.value)

\* a text with two whitespace characters in a row, read to an Err after an Ok
\* item
C12_Witness ==
    /\ \E i \in 2..(Len(input) - 1) :
         is_ascii_whitespace(input[i]) /\ is_ascii_whitespace(input[i + 1])
    /\ \E c \in 2..Len(trace) : IsErr(trace[c]) /\ trace[c - 1].ret.some

(***************************************************************************)
(* C13: on an empty text or one of ASCII whitespace only, with either      *)
(* grouping option, the first call of next returns None, no item is ever   *)
(* yielded, finished becomes true and current_addr stays 0.                *)
(***************************************************************************)
WhitespaceOnly == \A i \in 1..Len(input) : input[i] \in AsciiWhitespace

C13_BlankInputYieldsNothing ==
    WhitespaceOnly =>
        /\ \A c \in 1..Len(trace) : IsNone(trace[c]) /\ trace[c].finished
        /\ Len(trace) > 0 => finished
        /\ current_addr = Zeros(U64Digits)
        /\ ~panicked

\* a text of a form feed and another whitespace character, read
C13_Witness ==
    /\ WhitespaceOnly /\ Len(input) = 2 /\ input[1] = "\f" /\ input[2] # "\f"
    /\ Len(trace) > 0 /\ finished

(***************************************************************************)
(* C14: the items yielded with grouping on, each Data record of width w    *)
(* taken apart into its w single bytes at addr, addr + 1, ..., are exactly *)
(* the items yielded with grouping off over the same text, and the two     *)
(* readers end with the same current_addr.                                 *)
(***************************************************************************)
\* the items a reader yields from here on, by calls of next up to the first
\* None or the panic, and the reader they leave
RECURSIVE ItemsFrom(_, _)
Cons(item, run) == [run EXCEPT !.items = <<item>> \o @]

ItemsAfter(out, checks) ==
    IF out.panic \/ ~out.ret.some
    THEN [items |-> <<>>, self |-> out.self, panic |-> out.panic]
    ELSE Cons(out.ret.value, ItemsFrom(out.self, checks))

ItemsFrom(self, checks) == ItemsAfter(Reader_next(self, checks), checks)

\* the run of the reader without grouping over the same text
Ungrouped ==
    ItemsFrom(new_with_options(input, [group |-> FALSE]), overflow_checks)

\* the bytes of a Data record as single-byte records, the addresses modulo 2^64
Bytes(rec) ==
    [b \in 1..Width(rec.value.tag) |->
        Ok(Data(AddrAfter(rec.addr, b - 1),
                [tag |-> "U8", value |-> ByteAt(rec.value.value, b - 1)]))]

UngroupItem(res) == IF IsData(res) THEN Bytes(res.rec) ELSE <<res>>

RECURSIVE Ungroup(_, _)
Ungroup(tr, c) ==
    IF c > Len(tr) THEN <<>>
    ELSE (IF tr[c].ret.some THEN UngroupItem(tr[c].ret.value) ELSE <<>>)
         \o Ungroup(tr, c + 1)

SameAsUngrouped ==
    /\ Ungroup(trace, 1) = Ungrouped.items
    /\ current_addr = Ungrouped.self.current_addr

C14_Claimed == (options.group /\ RunOver) => SameAsUngrouped

\* what holds: the runs that end without a panic agree
C14_WithoutPanic == (options.group /\ finished) => SameAsUngrouped

(***************************************************************************)
(* C15: with grouping on the groups are maximal: a Data record of width    *)
(* w < 8 is yielded only when the token after it is absent or no byte, so  *)
(* in a run of N byte tokens every group but the last has width 8 and the  *)
(* last has N - 8 * floor((N - 1) / 8); at width 8 the loop stops without  *)
(* peeking at or taking a further token.                                   *)
(***************************************************************************)
\* the bytes that directly precede token j + 1
RECURSIVE RunBefore(_)
RunBefore(j) ==
    IF j > 0 /\ IsByteTok(Toks[j]) THEN 1 + RunBefore(j - 1) ELSE 0

Min(a, b) == IF a < b THEN a ELSE b

\* the width of the last group of a run of n bytes
LastWidth(n) == n - 8 * ((n - 1) \div 8)

\* the group call c yields takes the tokens after `from`
MaximalGroup(c, from) ==
    /\ TakenBy(c) < 8 =>
         \/ trace[c].consumed = Len(Toks)
         \/ ~IsByteTok(Toks[trace[c].consumed + 1])
    /\ TakenBy(c) = Min(8, RunAfter(from))
    /\ RunBefore(from) % 8 = 0
    /\ RunAfter(trace[c].consumed) = 0 =>
         TakenBy(c) = LastWidth(RunBefore(trace[c].consumed))

\* the call that has just returned a group of 8 left the lookahead empty
FullGroupDidNotPeek ==
    (~panicked /\ Len(trace) > 0 /\ IsDataItem(trace[Len(trace)])
     /\ ~trace[Len(trace)].finished /\ TakenBy(Len(trace)) = 8)
        => (~token_iterator.peeked.some /\ Consumed = trace[Len(trace)].consumed)

C15_GroupsAreMaximal ==
    options.group =>
        /\ \A c \in 1..Len(trace) :
             IsDataItem(trace[c]) => MaximalGroup(c, ConsumedBefore(c))
        /\ FullGroupDidNotPeek

\* a run of 9 bytes was read as a group of 8, which left the 9th byte
\* unpeeked, and a last group of 1
C15_Witness ==
    /\ options.group
    /\ \E c \in 2..Len(trace) :
         /\ IsDataItem(trace[c - 1]) /\ TakenBy(c - 1) = 8
         /\ IsDataItem(trace[c]) /\ TakenBy(c) = 1
         /\ RunBefore(trace[c].consumed) = 9

(***************************************************************************)
(* C16: the address arithmetic never leaves the 64-bit range and never     *)
(* faults: every call of next returns an item or None, and the cursor      *)
(* after a call that took bytes is the cursor before it plus their number, *)
(* also when a byte is taken at current_addr = 0xFFFFFFFFFFFFFFFF.         *)
(***************************************************************************)
NoIncrementOverflowed(c) ==
    IsSum(trace[c].current_addr, Plus(AddrBefore(c), TakenBy(c)))

C16_Claimed ==
    /\ ~panicked
    /\ \A c \in 1..Len(trace) : IsDataItem(trace[c]) => NoIncrementOverflowed(c)

\* what holds: no fault and no wrap in the runs whose address sums stay
\* within 64 bits
C16_BelowOverflow == ~Overflows => C16_Claimed

(***************************************************************************)
(* C17: a call of next made while the reader is not finished takes at      *)
(* least one token or sets finished; a call that yields an item takes      *)
(* exactly one token with grouping off and 1 to 8 with grouping on; so a   *)
(* text of T tokens yields at most T items and the reader is finished      *)
(* after at most T + 1 calls.                                              *)
(***************************************************************************)
FinishedBefore(c) == c > 1 /\ trace[c - 1].finished

TakesAsAllowed(c) ==
    /\ TakenBy(c) >= 1 \/ trace[c].finished
    /\ IsNone(trace[c]) => TakenBy(c) = 0
    /\ trace[c].ret.some =>
         TakenBy(c) \in (IF options.group THEN 1..8 ELSE {1})

\* the tokens the call that panicked had taken
TakenByPanic ==
    Consumed - (IF Len(trace) = 0 THEN 0 ELSE trace[Len(trace)].consumed)

C17_ProgressAndTermination ==
    /\ \A c \in 1..Len(trace) : ~FinishedBefore(c) => TakesAsAllowed(c)
    /\ panicked => TakenByPanic \in (IF options.group THEN 1..8 ELSE {1})
    /\ Cardinality({c \in 1..Len(trace) : trace[c].ret.some}) <= Len(Toks)
    /\ Len(trace) > Len(Toks) => trace[Len(Toks) + 1].finished

\* a text of T >= 9 tokens read without grouping: T items, finished by call
\* T + 1 and not before
C17_Witness ==
    /\ ~options.group /\ Len(Toks) >= 9
    /\ Len(trace) = Len(Toks) + 1
    /\ ~trace[Len(Toks)].finished /\ trace[Len(Toks) + 1].finished

(***************************************************************************)
(* C18: a comment takes exactly one token, not the rest of its line: a     *)
(* token that begins with "//" yields Comment whatever follows the         *)
(* slashes and leaves current_addr and finished alone, and the token after *)
(* it is parsed as any other by the next call: one that is no byte and no  *)
(* directive yields Err(BadNumberConversion) and finishes the reader.      *)
(***************************************************************************)
BeginsComment(tok) == Len(tok) >= 2 /\ tok[1] = "/" /\ tok[2] = "/"

\* call c took token j first
StartsAt(c, j) == TakenBy(c) >= 1 /\ ConsumedBefore(c) = j - 1

\* the call after a comment parses the next token as it parses any token
ParsedAsAny(c, tok) ==
    /\ trace[c].ret.some
    /\ trace[c].ret.value.ok = ParseOf(tok).ok
    /\ IF IsBadTok(tok)
       THEN trace[c].ret.value = Err("BadNumberConversion") /\ trace[c].finished
       ELSE trace[c].ret.value.rec.type = ParseOf(tok).rec.type

AfterComment(c, j) ==
    IF j > Len(Toks) THEN IsNone(trace[c]) ELSE ParsedAsAny(c, Toks[j])

CommentTakesOneToken(c, j) ==
    /\ trace[c].ret = Some(Ok(Comment))
    /\ TakenBy(c) = 1
    /\ trace[c].current_addr = AddrBefore(c)
    /\ ~trace[c].finished
    /\ c < Len(trace) => AfterComment(c + 1, j + 1)

C18_CommentIsOneToken ==
    \A j \in 1..Len(Toks) :
        BeginsComment(Toks[j]) =>
            \A c \in 1..Len(trace) :
                /\ StartsAt(c, j) => CommentTakesOneToken(c, j)
                /\ (ConsumedBefore(c) < j /\ j <= trace[c].consumed) => StartsAt(c, j)

\* the one-line text "//@1 ZZ" read to the Err of the word after the comment
C18_Witness ==
    /\ \A i \in 1..Len(input) : input[i] \notin {"\n", "\r"}
    /\ Toks = << <<"/", "/", "@", "1">>, <<"Z", "Z">> >>
    /\ Len(trace) >= 2
    /\ trace[1].ret = Some(Ok(Comment)) /\ IsErr(trace[2])

(***************************************************************************)
(* impl fmt::Display for Record                                            *)
(***************************************************************************)
\* the widths of "{:#010X}" and "{:02X}"
AddrWidth == 10
ValueWidth == 2

UpperHexDigit(d) ==
    <<"0", "1", "2", "3", "4", "5", "6", "7", "8", "9",
      "A", "B", "C", "D", "E", "F">>[d + 1]

\* x >> 4 in the type of x
Shr(x) == <<0>> \o SubSeq(x, 1, Len(x) - 1)

IsZero(x) == \A i \in 1..Len(x) : x[i] = 0

\* the digit loop of UpperHex: the digit x % 16 is written in front of those
\* written so far and x becomes x / 16, until x is 0
RECURSIVE UpperHex(_)
UpperHex(x) ==
    IF IsZero(Shr(x)) THEN <<UpperHexDigit(x[Len(x)])>>
    ELSE UpperHex(Shr(x)) \o <<UpperHexDigit(x[Len(x)])>>

\* a padding with zeros in which the prefix does not count for the width
pad_integral_PrefixNotCounted(prefix, buf, width) ==
    IF width <= Len(buf) THEN prefix \o buf
    ELSE prefix \o [i \in 1..(width - Len(buf)) |-> "0"] \o buf

\* Formatter::pad_integral with the flag 0: the prefix, then zeros up to the
\* width, then the digits
pad_integral(prefix, buf, width) ==
    IF width <= Len(prefix) + Len(buf) THEN prefix \o buf
    ELSE prefix \o [i \in 1..(width - Len(prefix) - Len(buf)) |-> "0"] \o buf

\* "{:#010X}" of an address and "{:02X}" of a value
fmt_addr(addr) == pad_integral(<<"0", "x">>, UpperHex(addr), AddrWidth)
fmt_value(value) == pad_integral(<<>>, UpperHex(value), ValueWidth)

\* u64::from of the value a variant holds
u64_from(value) == Widen(value.value, U64Digits)

\* Display::fmt of a record: the characters written
Record_fmt(rec) ==
    CASE rec.type = "EndOfFile" -> <<"E", "O", "F">>
      [] rec.type = "Comment" -> <<"c", "o", "m", "m", "e", "n", "t">>
      [] rec.type = "NewAddress" ->
           <<"n", "e", "w", " ", "a", "d", "d", "r", "e", "s", "s", ":", " ">>
           \o fmt_addr(rec.addr)
      [] rec.type = "Data" ->
           fmt_addr(rec.addr) \o <<":", " ">> \o fmt_value(u64_from(rec.value))

\* the records that are displayed: addresses of less than 8, of 8 and of more
\* digits, and for every variant values of few digits and its largest one
DisplayAddrs ==
    { Zeros(U64Digits), Addr81(0), Addr81(5),
      Widen(<<10, 11, 12>>, U64Digits),
      Widen(<<15, 15, 15, 15, 15, 15, 15, 15>>, U64Digits),
      Widen(<<1, 0, 0, 0, 0, 0, 0, 0, 0>>, U64Digits),
      <<15, 15, 15, 15, 15, 15, 15, 15, 15, 15, 15, 15, 15, 15, 15, 15>> }

\* digits of the integer type that holds a variant
ContainerDigits(tag) ==
    CASE tag = "U8" -> 2 [] tag = "U16" -> 4 [] tag \in {"U24", "U32"} -> 8
      [] OTHER -> 16

DisplayPatterns ==
    { <<0>>, <<5>>, <<10, 0>>, <<1, 0, 0>>, <<2, 2, 15, 3, 10, 0, 0, 9>>,
      <<8, 4, 6, 3, 3, 4, 2, 0, 2, 2, 15, 3, 10, 0, 0, 9>> }

DisplayValues(w) ==
    {[tag |-> DataTags[w], value |-> Widen(p, ContainerDigits(DataTags[w]))] :
        p \in {q \in DisplayPatterns : Len(q) <= 2 * w}
              \cup {[i \in 1..(2 * w) |-> 15]}}

DisplayRecords ==
    {Data(a, v) : a \in DisplayAddrs, v \in UNION {DisplayValues(w) : w \in 1..8}}
    \cup {NewAddress(a) : a \in DisplayAddrs}
    \cup {Comment, EndOfFile}

\* input is the record here
DisplayInit ==
    /\ input \in DisplayRecords
    /\ current_addr = Zeros(U64Digits)
    /\ options = [group |-> FALSE]
    /\ token_iterator = new_with_options(<<>>, options).token_iterator
    /\ finished = FALSE
    /\ overflow_checks = FALSE
    /\ panicked = FALSE
    /\ trace = <<>>
    /\ last = [op |-> "new"]

\* the caller formats the record with "{}"
CallFmt ==
    /\ last.op = "new"
    /\ last' = [op |-> "fmt", ret |-> Record_fmt(input)]
    /\ UNCHANGED <<input, options, token_iterator, finished, current_addr,
                   overflow_checks, panicked, trace>>

DisplayNext == CallFmt

DisplaySpec == DisplayInit /\ [][DisplayNext]_vars

(***************************************************************************)
(* C19: Display of a Data record is the address as "0x" and uppercase      *)
(* hexadecimal digits, zero-padded to at least 8 of them, then ": ", then  *)
(* the value as uppercase hexadecimal digits zero-padded to at least 2:    *)
(* max(2, hexadecimal digits of the number) of them, whatever the width of *)
(* the variant; NewAddress(a) is "new address: " and a rendered likewise.  *)
(***************************************************************************)
UpperHexChars ==
    {"0", "1", "2", "3", "4", "5", "6", "7", "8", "9", "A", "B", "C", "D", "E", "F"}

\* the hexadecimal digits of a number: the places from its first digit that
\* is not 0 on
HexLength(x) ==
    Cardinality({i \in 1..Len(x) : \E j \in 1..i : x[j] # 0})

Max(a, b) == IF a > b THEN a ELSE b

\* str is the number x in uppercase hexadecimal digits, zero-padded to at
\* least least of them
Renders(str, x, least) ==
    /\ Len(str) = Max(least, HexLength(x))
    /\ \A i \in 1..Len(str) : str[i] \in UpperHexChars
    /\ NumberOf(str, U64Digits) = x

RendersAddress(str, addr) ==
    /\ Len(str) > 2
    /\ SubSeq(str, 1, 2) = <<"0", "x">>
    /\ Renders(SubSeq(str, 3, Len(str)), addr, 8)

\* the text is cut at its k-th character, the colon
RendersData(str, k, rec) ==
    /\ RendersAddress(SubSeq(str, 1, k - 1), rec.addr)
    /\ SubSeq(str, k, k + 1) = <<":", " ">>
    /\ Renders(SubSeq(str, k + 2, Len(str)), u64_from(rec.value), 2)

RendersNewAddress(str, rec) ==
    /\ Len(str) > 13
    /\ SubSeq(str, 1, 13) =
         <<"n", "e", "w", " ", "a", "d", "d", "r", "e", "s", "s", ":", " ">>
    /\ RendersAddress(SubSeq(str, 14, Len(str)), rec.addr)

C19_DisplayOfDataAndNewAddress ==
    last.op = "fmt" =>
        /\ input.type = "Data" =>
             \E k \in 1..Len(last.ret) : RendersData(last.ret, k, input)
        /\ input.type = "NewAddress" => RendersNewAddress(last.ret, input)

\* the 4-byte value 0x00000005 at 0x81000000 is displayed as "0x81000000: 05"
C19_Witness ==
    /\ input = Data(Addr81(0), [tag |-> "U32", value |-> <<0, 0, 0, 0, 0, 0, 0, 5>>])
    /\ last.op = "fmt"
    /\ last.ret = <<"0", "x", "8", "1", "0", "0", "0", "0", "0", "0", ":", " ",
                    "0", "5">>
====
